---- MODULE Spec2Model ----
(***************************************************************************)
(* Realm Brew Hex Map Editor (src/hex_map_editor_tkinter.py) as a state    *)
(* machine: the map model (HexMap), the asset library (TileLibrary), the   *)
(* hex geometry and the event handlers of App.                             *)
(*                                                                         *)
(* Representation                                                          *)
(*  - Python None is the empty tuple <<>>; a present value of an optional  *)
(*    index i is <<i>>, a present hex is <<col, row>>.  Indices are        *)
(*    0-based as in the source; sequence element i is s[i + 1].            *)
(*  - Folder names and display names are tuples of one-character strings,  *)
(*    so that lower(), startswith(), endswith(), strip() and the substring *)
(*    test are computed and not assumed.  The bullet U+2022 is written "@" *)
(*    and U+00B7 is written "^".                                           *)
(*  - Floats are fixed point.  Lengths are in units of 1/30 pixel (Unit),  *)
(*    with sqrt(3) taken as 26/15, so hex_to_pixel is integral; overlay    *)
(*    scale is in hundredths, overlay rotation in whole degrees.           *)
(***************************************************************************)
EXTENDS Integers, Sequences, FiniteSets, TLC

None == <<>>

Some(v) == <<v>>

Range(s) == {s[i] : i \in 1..Len(s)}

Abs(x) == IF x < 0 THEN -x ELSE x

Max(a, b) == IF a >= b THEN a ELSE b

Min(a, b) == IF a <= b THEN a ELSE b

\* ---------------------------------------------------------------- constants

HEX_SIZE_DEFAULT == 60

MIN_HEX_SIZE == 20

MAX_HEX_SIZE == 160

ROTATIONS == 6

\* OVERLAY_SCALE_DEFAULT = 0.5, in hundredths
OVERLAY_SCALE_DEFAULT == 50

\* the clamp of _scale_overlay, max(0.1, min(5.0, .)), in hundredths
SCALE_MIN == 10

SCALE_MAX == 500

\* 1/30 pixel: 1.5 * Unit = 45 and sqrt(3) / 2 * Unit = 26 are integers
Unit == 2 * 15

\* ------------------------------------------------------- strings as tuples

UpperChars == <<"A","B","C","D","E","F","G","H","I","J","K","L","M","N","O","P","Q","R","S","T","U","V","W","X","Y","Z">>

LowerChars == <<"a","b","c","d","e","f","g","h","i","j","k","l","m","n","o","p","q","r","s","t","u","v","w","x","y","z">>

DigitChars == {"0","1","2","3","4","5","6","7","8","9"}

BulletChars == {"@", "^"}

\* str.lower(), one character
LowerChar(c) ==
  IF \E i \in 1..Len(UpperChars) : UpperChars[i] = c
  THEN LowerChars[CHOOSE i \in 1..Len(UpperChars) : UpperChars[i] = c]
  ELSE c

\* str.lower()
Lower(s) == [i \in 1..Len(s) |-> LowerChar(s[i])]

\* k in s
Contains(k, s) ==
  \E i \in 1..(Len(s) - Len(k) + 1) : SubSeq(s, i, i + Len(k) - 1) = k

\* s.startswith(p)
StartsWith(s, p) == Len(s) >= Len(p) /\ SubSeq(s, 1, Len(p)) = p

\* s.endswith(x)
EndsWith(s, x) == Len(s) >= Len(x) /\ SubSeq(s, Len(s) - Len(x) + 1, Len(s)) = x

RECURSIVE LStrip(_)
LStrip(s) == IF s # <<>> /\ s[1] = " " THEN LStrip(Tail(s)) ELSE s

RECURSIVE RStrip(_)
RStrip(s) ==
  IF s # <<>> /\ s[Len(s)] = " " THEN RStrip(SubSeq(s, 1, Len(s) - 1)) ELSE s

\* str.strip()
Strip(s) == RStrip(LStrip(s))

\* re.sub(r"^\d\s*[bullet]\s*", "", s)
StripOrdinal(s) ==
  IF s # <<>> /\ s[1] \in DigitChars
  THEN LET a == LStrip(Tail(s))
       IN  IF a # <<>> /\ a[1] \in BulletChars THEN LStrip(Tail(a)) ELSE s
  ELSE s

\* ------------------------------------------------ Realm Brew folder detection

BrandPrefixes ==
  << <<"R","e","a","l","m"," ","B","r","e","w"," ","-"," ">>,
     <<"R","e","a","l","m"," ","B","r","e","w"," ">> >>

BrandSuffixes ==
  << <<" ","-"," ","D","i","g","i","t","a","l"," ","T","i","l","e","s">>,
     <<" ","-"," ","D","i","g","i","t","a","l"," ","O","v","e","r","l","a","y","s">>,
     <<" ","D","i","g","i","t","a","l"," ","T","i","l","e","s">>,
     <<" ","D","i","g","i","t","a","l"," ","O","v","e","r","l","a","y","s">>,
     <<" ","T","i","l","e","s">>,
     <<" ","O","v","e","r","l","a","y","s">> >>

\* the first prefix of ps (from index i) that s starts with is cut off
RECURSIVE CutPrefix(_, _, _)
CutPrefix(s, ps, i) ==
  IF i > Len(ps) THEN s
  ELSE IF StartsWith(s, ps[i]) THEN SubSeq(s, Len(ps[i]) + 1, Len(s))
  ELSE CutPrefix(s, ps, i + 1)

\* the first suffix of xs (from index i) that s ends with is cut off
RECURSIVE CutSuffix(_, _, _)
CutSuffix(s, xs, i) ==
  IF i > Len(xs) THEN s
  ELSE IF EndsWith(s, xs[i]) THEN SubSeq(s, 1, Len(s) - Len(xs[i]))
  ELSE CutSuffix(s, xs, i + 1)

_clean_display_name(folder_name) ==
  Strip(CutSuffix(CutPrefix(StripOrdinal(folder_name), BrandPrefixes, 1),
                  BrandSuffixes, 1))

OverlayKeyword == <<"o","v","e","r","l","a","y">>

TileKeywords ==
  { <<"t","i","l","e">>, <<"d","u","n","g","e","o","n">>, <<"r","i","v","e","r">>,
    <<"c","a","v","e","r","n">>,
    <<"s","u","b","t","e","r","r","a","n","e","a","n">>,
    <<"u","n","d","e","r","d","a","r","k">> }

_is_overlay_folder(name) == Contains(OverlayKeyword, Lower(name))

_is_tile_folder(name) == \E k \in TileKeywords : Contains(k, Lower(name))

\* ------------------------------------------------------ hex math (flat-top)

\* col & 1: the parity of a two's-complement integer, 1 for every odd col
Parity(col) == col % 2

\* (size * 1.5 * col, size * sqrt(3) * (row + 0.5 * (col & 1))), in units
hex_to_pixel(col, row, size) ==
  << ((3 * Unit) \div 2) * size * col,
     ((26 * Unit) \div 30) * size * (2 * row + Parity(col)) >>

\* int(round(a / b)) for b > 0: Python's round() rounds halves to even
RoundDiv(a, b) ==
  LET q == a \div b
      r == a % b
  IN  IF 2 * r < b THEN q
      ELSE IF 2 * r > b THEN q + 1
      ELSE IF q % 2 = 0 THEN q ELSE q + 1

\* the candidates of pixel_to_hex in the order of its two loops
HexCandidates(col, py, size) ==
  LET dcs == <<-1, 0, 1>>
      drs == <<-2, -1, 0, 1, 2>>
      cand(k) ==
        LET c == col + dcs[((k - 1) \div 5) + 1]
            dr == drs[((k - 1) % 5) + 1]
            r == RoundDiv(py - ((26 * Unit) \div 30) * size * Parity(c),
                          ((52 * Unit) \div 30) * size) + dr
        IN  <<c, r>>
  IN  [k \in 1..15 |-> cand(k)]

\* mutant: the y term repeats the x term, d = (px - hx) ** 2 + (px - hx) ** 2
HexDist2_XTwice(px, py, c, r, size) ==
  LET h == hex_to_pixel(c, r, size)
  IN  (px - h[1]) * (px - h[1]) + (px - h[1]) * (px - h[1])

\* d = (px - hx) ** 2 + (py - hy) ** 2
HexDist2(px, py, c, r, size) ==
  LET h == hex_to_pixel(c, r, size)
  IN  (px - h[1]) * (px - h[1]) + (py - h[2]) * (py - h[2])

\* the loop of pixel_to_hex from candidate k on; best_d < 0 stands for inf
RECURSIVE HexBest(_, _, _, _, _, _, _)
HexBest(cands, k, px, py, size, best, best_d) ==
  IF k > Len(cands) THEN best
  ELSE LET d == HexDist2(px, py, cands[k][1], cands[k][2], size)
       IN  IF best_d < 0 \/ d < best_d
           THEN HexBest(cands, k + 1, px, py, size, cands[k], d)
           ELSE HexBest(cands, k + 1, px, py, size, best, best_d)

pixel_to_hex(px, py, size) ==
  LET col == RoundDiv(px, ((3 * Unit) \div 2) * size)
  IN  HexBest(HexCandidates(col, py, size), 1, px, py, size, <<col, 0>>, -1)

\* ------------------------------------------------------------- data classes

TileInfo(path, category, display_category) ==
  [path |-> path, category |-> category, display_category |-> display_category]

OverlayInfo(path, category, display_category) ==
  [path |-> path, category |-> category, display_category |-> display_category]

PlacedTile(col, row, path, category, rotation) ==
  [col |-> col, row |-> row, path |-> path, category |-> category,
   rotation |-> rotation]

PlacedOverlay(col, row, path, offset_x, offset_y, rotation, scale) ==
  [col |-> col, row |-> row, path |-> path, offset_x |-> offset_x,
   offset_y |-> offset_y, rotation |-> rotation, scale |-> scale]

\* a dict as the sequence of its items [key, value] in insertion order
DictHas(d, k) == \E i \in 1..Len(d) : d[i].key = k

\* d.get(k, default)
DictGet(d, k, default) ==
  IF DictHas(d, k) THEN d[CHOOSE i \in 1..Len(d) : d[i].key = k].value
  ELSE default

\* mutant: the item is appended whether or not the key is present
DictSet_Append(d, k, v) == Append(d, [key |-> k, value |-> v])

\* d[k] = v: an existing key keeps its place
DictSet(d, k, v) ==
  IF DictHas(d, k)
  THEN [i \in 1..Len(d) |-> IF d[i].key = k THEN [key |-> k, value |-> v] ELSE d[i]]
  ELSE Append(d, [key |-> k, value |-> v])

\* d.pop(k) for a key that is present
DictPop(d, k) ==
  LET i == CHOOSE j \in 1..Len(d) : d[j].key = k
  IN  SubSeq(d, 1, i - 1) \o SubSeq(d, i + 1, Len(d))

DictKeys(d) == [i \in 1..Len(d) |-> d[i].key]

DictValues(d) == [i \in 1..Len(d) |-> d[i].value]

\* e.get(f, default) on a JSON object e
JsonGet(e, f, default) == IF f \in DOMAIN e THEN e[f] ELSE default

\* ------------------------------------------------------------------ HexMap

\* A map file is [kind, tiles, overlays]: kind "object" is a JSON object whose
\* "tiles" and "overlays" arrays (empty when the key is absent, as
\* data.get(key, []) reads it) hold JSON objects, each a function from the
\* field names it has; "array" is a JSON document that is no object,
\* "garbage" is no JSON, "missing" cannot be opened.

\* a save that leaves the rotation of each tile out of the document
HexMap_save_NoTileRotation(ts, ovs) ==
  [kind |-> "object",
   tiles |-> [i \in 1..Len(ts) |->
                LET t == ts[i].value
                IN  [col |-> t.col, row |-> t.row, path |-> t.path,
                     category |-> t.category]],
   overlays |-> [i \in 1..Len(ovs) |->
                   LET o == ovs[i]
                   IN  [col |-> o.col, row |-> o.row, path |-> o.path,
                        offset_x |-> o.offset_x, offset_y |-> o.offset_y,
                        rotation |-> o.rotation, scale |-> o.scale]]]

\* the document HexMap.save dumps
HexMap_save(ts, ovs) ==
  [kind |-> "object",
   tiles |-> [i \in 1..Len(ts) |->
                LET t == ts[i].value
                IN  [col |-> t.col, row |-> t.row, path |-> t.path,
                     category |-> t.category, rotation |-> t.rotation]],
   overlays |-> [i \in 1..Len(ovs) |->
                   LET o == ovs[i]
                   IN  [col |-> o.col, row |-> o.row, path |-> o.path,
                        offset_x |-> o.offset_x, offset_y |-> o.offset_y,
                        rotation |-> o.rotation, scale |-> o.scale]]]

\* t["col"], t["row"], t["path"] (o[...] likewise) raise KeyError when absent
HasRequired(e) == {"col", "row", "path"} \subseteq DOMAIN e

\* the dict comprehension of HexMap.load over the entries from i on
RECURSIVE LoadTiles(_, _, _)
LoadTiles(es, i, acc) ==
  IF i > Len(es) THEN acc
  ELSE LET t == es[i]
       IN  LoadTiles(es, i + 1,
             DictSet(acc, <<t.col, t.row>>,
                     PlacedTile(t.col, t.row, t.path,
                                JsonGet(t, "category", <<>>),
                                JsonGet(t, "rotation", 0))))

\* the list comprehension of HexMap.load
LoadOverlays(es) ==
  [i \in 1..Len(es) |->
     LET o == es[i]
     IN  PlacedOverlay(o.col, o.row, o.path,
                       JsonGet(o, "offset_x", 0), JsonGet(o, "offset_y", 0),
                       JsonGet(o, "rotation", 0),
                       JsonGet(o, "scale", OVERLAY_SCALE_DEFAULT))]

\* HexMap.load(path) on a map [tiles, overlays, filepath]: the map it leaves
\* and whether it raised.  Each assignment happens when its comprehension has
\* been evaluated: self.tiles is assigned before the overlays are read.
HexMap_load(m, path, doc) ==
  IF doc.kind # "object"
  THEN [raised |-> TRUE, tiles |-> m.tiles, overlays |-> m.overlays,
        filepath |-> m.filepath]
  ELSE IF \E i \in 1..Len(doc.tiles) : ~HasRequired(doc.tiles[i])
  THEN [raised |-> TRUE, tiles |-> m.tiles, overlays |-> m.overlays,
        filepath |-> m.filepath]
  ELSE IF \E i \in 1..Len(doc.overlays) : ~HasRequired(doc.overlays[i])
  THEN [raised |-> TRUE, tiles |-> LoadTiles(doc.tiles, 1, <<>>),
        overlays |-> m.overlays, filepath |-> m.filepath]
  ELSE [raised |-> FALSE, tiles |-> LoadTiles(doc.tiles, 1, <<>>),
        overlays |-> LoadOverlays(doc.overlays), filepath |-> Some(path)]

\* ------------------------------------------------------------------ Library

\* A folder is [readable, entries]; entries are its children in the order
\* sorted(Path(root).iterdir()) yields them, each [name, is_dir, pngs] with
\* pngs the sorted d.glob("*.png").

\* the loop of TileLibrary.load from entry i on
RECURSIVE LibraryScan(_, _, _, _)
LibraryScan(es, i, cats, ocats) ==
  IF i > Len(es) THEN [categories |-> cats, overlay_categories |-> ocats]
  ELSE LET d == es[i]
           display == _clean_display_name(d.name)
       IN  IF ~d.is_dir THEN LibraryScan(es, i + 1, cats, ocats)
           ELSE IF d.pngs = <<>> THEN LibraryScan(es, i + 1, cats, ocats)
           ELSE IF _is_overlay_folder(d.name)
           THEN LibraryScan(es, i + 1, cats,
                  DictSet(ocats, display,
                    [j \in 1..Len(d.pngs) |-> OverlayInfo(d.pngs[j], d.name, display)]))
           ELSE LibraryScan(es, i + 1,
                  DictSet(cats, display,
                    [j \in 1..Len(d.pngs) |-> TileInfo(d.pngs[j], d.name, display)]),
                  ocats)

\* TileLibrary.load(root): both mappings are reset first; iterdir() of an
\* unreadable root raises after the reset
TileLibrary_load(folder) ==
  IF ~folder.readable
  THEN [raised |-> TRUE, ok |-> FALSE, categories |-> <<>>,
        overlay_categories |-> <<>>]
  ELSE LET r == LibraryScan(folder.entries, 1, <<>>, <<>>)
       IN  [raised |-> FALSE,
            ok |-> (r.categories # <<>> \/ r.overlay_categories # <<>>),
            categories |-> r.categories,
            overlay_categories |-> r.overlay_categories]

\* -------------------------------------------------------------------- state

VARIABLES
  mode,               \* "view", "place_tile", "place_overlay"
  hovered_hex,        \* None or <<col, row>>
  selected_hex,       \* None or <<col, row>>
  sel_category,       \* None or a tile category's display name
  sel_tile_idx,       \* None or <<index into the selected tile category>>
  placement_rot,      \* rotation step for the next tile
  sel_ov_category,    \* None or an overlay category's display name
  sel_overlay_idx,    \* None or <<index into the selected overlay category>>
  selected_ov_idx,    \* None or <<index into hex_map.overlays>>
  pan_start_mouse,    \* None or <<x, y>> in units
  pan_start_cam,      \* None or <<cam_x, cam_y>>
  drag_ov_idx,        \* None or <<index into hex_map.overlays>>
  drag_ov_offset,     \* <<dx, dy>> in units
  hex_size,           \* hex radius in pixels
  cam_x, cam_y,       \* camera offset in units
  tiles,              \* hex_map.tiles: dict <<col, row>> -> PlacedTile
  overlays,           \* hex_map.overlays: sequence of PlacedOverlay
  filepath,           \* hex_map.filepath: None or <<path>>
  categories,         \* library.categories: dict display -> TileInfo list
  overlay_categories, \* library.overlay_categories
  status,             \* which message status_var holds
  disk,               \* the map files written since start: dict path -> document
  event,              \* the handler that ran last, its inputs and its branch
  probe               \* argument and result of the pure function under check

vars ==
  << mode, hovered_hex, selected_hex, sel_category, sel_tile_idx, placement_rot,
     sel_ov_category, sel_overlay_idx, selected_ov_idx, pan_start_mouse,
     pan_start_cam, drag_ov_idx, drag_ov_offset, hex_size, cam_x, cam_y, tiles,
     overlays, filepath, categories, overlay_categories, status, disk, event,
     probe >>

selVars == <<sel_category, sel_tile_idx, sel_ov_category, sel_overlay_idx>>

libVars == <<categories, overlay_categories>>

mapVars == <<tiles, overlays, filepath>>

camVars == <<hex_size, cam_x, cam_y, pan_start_mouse, pan_start_cam>>

dragVars == <<drag_ov_idx, drag_ov_offset>>

Event(handler, args, outcome) ==
  [handler |-> handler, args |-> args, outcome |-> outcome]

\* ---------------------------------------------------------------- fixtures

\* the bundle folder: a tile set, a folder without images, an overlay set, a
\* folder whose name has no keyword, and a plain file
FolderBundle ==
  [readable |-> TRUE,
   entries |->
     << [name |-> <<"1"," ","@"," ","R","e","a","l","m"," ","B","r","e","w"," ","-"," ","F","o","r","e","s","t"," ","T","i","l","e","s">>,
         is_dir |-> TRUE, pngs |-> <<"forest/a.png", "forest/b.png">>],
        [name |-> <<"E","m","p","t","y"," ","T","i","l","e","s">>,
         is_dir |-> TRUE, pngs |-> <<>>],
        [name |-> <<"M","a","g","i","c"," ","O","v","e","r","l","a","y","s">>,
         is_dir |-> TRUE, pngs |-> <<"magic/m.png">>],
        [name |-> <<"M","i","s","c">>,
         is_dir |-> TRUE, pngs |-> <<"misc/x.png">>],
        [name |-> <<"n","o","t","e","s",".","t","x","t">>,
         is_dir |-> FALSE, pngs |-> <<>>] >>]

\* a folder whose first set matches both heuristics and is in upper case
FolderAlt ==
  [readable |-> TRUE,
   entries |->
     << [name |-> <<"O","V","E","R","L","A","Y"," ","D","u","n","g","e","o","n">>,
         is_dir |-> TRUE, pngs |-> <<"od/o.png">>],
        [name |-> <<"R","i","v","e","r">>,
         is_dir |-> TRUE, pngs |-> <<"river/r.png">>] >>]

\* a folder with no image in any subfolder
FolderEmpty ==
  [readable |-> TRUE,
   entries |-> << [name |-> <<"r","e","a","d","m","e">>, is_dir |-> TRUE,
                   pngs |-> <<>>] >>]

FolderUnreadable == [readable |-> FALSE, entries |-> <<>>]

\* a small bundle: one overlay set and one tile set of two images
FolderSmall ==
  [readable |-> TRUE,
   entries |->
     << [name |-> <<"F","o","g"," ","O","v","e","r","l","a","y","s">>,
         is_dir |-> TRUE, pngs |-> <<"fog/m.png">>],
        [name |-> <<"H","i","l","l"," ","T","i","l","e","s">>,
         is_dir |-> TRUE, pngs |-> <<"hill/a.png", "hill/b.png">>] >>]

Hill == <<"H","i","l","l">>

\* the scenario of the specification: one tile at (2,-1) rotation 3, one
\* overlay at (0,0) offset (5.5,-3.2) rotation 45 scale 1.2
DocGood ==
  [kind |-> "object",
   tiles |-> << [col |-> 2, row |-> -1, path |-> "hill/a.png",
                 category |-> Hill, rotation |-> 3] >>,
   overlays |-> << [col |-> 0, row |-> 0, path |-> "fog/m.png",
                    offset_x |-> 165, offset_y |-> -96, rotation |-> 45,
                    scale |-> 120] >>]

\* an older document: the optional fields are absent
DocOld ==
  [kind |-> "object",
   tiles |-> << [col |-> 0, row |-> 0, path |-> "hill/b.png"] >>,
   overlays |-> << [col |-> 1, row |-> 0, path |-> "fog/m.png"] >>]

\* a tile entry without "row"
DocBadTile ==
  [kind |-> "object",
   tiles |-> << [col |-> 0, path |-> "hill/a.png"] >>,
   overlays |-> << [col |-> 0, row |-> 0, path |-> "fog/m.png"] >>]

\* valid tiles, an overlay entry without "col"
DocBadOverlay ==
  [kind |-> "object",
   tiles |-> << [col |-> 1, row |-> 1, path |-> "hill/b.png",
                 category |-> Hill, rotation |-> 1] >>,
   overlays |-> << [row |-> 0, path |-> "fog/m.png"] >>]

\* a hand-edited document: tile rotation 7, overlay rotation 400, scale 7.3
DocWild ==
  [kind |-> "object",
   tiles |-> << [col |-> 2, row |-> -1, path |-> "hill/a.png",
                 category |-> Hill, rotation |-> 7] >>,
   overlays |-> << [col |-> 0, row |-> 0, path |-> "fog/m.png",
                    offset_x |-> 0, offset_y |-> 0, rotation |-> 400,
                    scale |-> 730] >>]

\* a document with no "overlays" key: two tiles, one left unrotated
DocTilesOnly ==
  [kind |-> "object",
   tiles |-> << [col |-> 0, row |-> 0, path |-> "hill/a.png",
                 category |-> Hill, rotation |-> 2],
                [col |-> 2, row |-> 0, path |-> "hill/b.png",
                 category |-> Hill] >>,
   overlays |-> <<>>]

DocArray == [kind |-> "array", tiles |-> <<>>, overlays |-> <<>>]

DocGarbage == [kind |-> "garbage", tiles |-> <<>>, overlays |-> <<>>]

DocMissing == [kind |-> "missing", tiles |-> <<>>, overlays |-> <<>>]

\* the map files present when the editor starts; any other path is missing
FileAtStart(path) ==
  CASE path = "good.hexmap" -> DocGood
    [] path = "old.hexmap" -> DocOld
    [] path = "badtile.hexmap" -> DocBadTile
    [] path = "badoverlay.hexmap" -> DocBadOverlay
    [] path = "wild.hexmap" -> DocWild
    [] path = "tiles.hexmap" -> DocTilesOnly
    [] path = "array.hexmap" -> DocArray
    [] path = "garbage.hexmap" -> DocGarbage
    [] OTHER -> DocMissing

\* a path in a directory that cannot be written
ReadOnlyPaths == {"ro/out.hexmap"}

\* ---------------------------------------------------------------- App.__init__

\* The constructor ends in _prompt_folder(); Init is the state before that
\* dialog is answered, and PromptFolder is its answer.
\* every variable of the editor as __init__ sets it
InitEditor ==
  /\ mode = "view"
  /\ hovered_hex = None
  /\ selected_hex = None
  /\ sel_category = None
  /\ sel_tile_idx = None
  /\ placement_rot = 0
  /\ sel_ov_category = None
  /\ sel_overlay_idx = None
  /\ selected_ov_idx = None
  /\ pan_start_mouse = None
  /\ pan_start_cam = None
  /\ drag_ov_idx = None
  /\ drag_ov_offset = <<0, 0>>
  /\ hex_size = HEX_SIZE_DEFAULT
  /\ cam_x = 550 * Unit
  /\ cam_y = 380 * Unit
  /\ tiles = <<>>
  /\ overlays = <<>>
  /\ filepath = None
  /\ categories = <<>>
  /\ overlay_categories = <<>>
  /\ status = "begin"
  /\ disk = <<>>
  /\ event = Event("__init__", <<>>, "")

ProbeIdle ==
  [col |-> 0, row |-> 0, size |-> HEX_SIZE_DEFAULT, pixel |-> None, hex |-> None]

Init == InitEditor /\ probe = ProbeIdle

\* ------------------------------------------------------------------ mode

\* a mode change that keeps the selected hex
SetMode_KeepHex(m) ==
  /\ mode' = m
  /\ selected_ov_idx' = None
  /\ status' = m
  /\ event' = Event("_set_mode", <<m>>, "")
  /\ UNCHANGED <<hovered_hex, selected_hex, selVars, placement_rot, camVars,
                 dragVars, mapVars, libVars, disk, probe>>

\* a mode change that keeps the selected hex and overlay
SetMode_KeepSelection(m) ==
  /\ mode' = m
  /\ status' = m
  /\ event' = Event("_set_mode", <<m>>, "")
  /\ UNCHANGED <<hovered_hex, selected_hex, selected_ov_idx, selVars,
                 placement_rot, camVars, dragVars, mapVars, libVars, disk,
                 probe>>

\* App._set_mode(m)
SetMode(m) ==
  /\ mode' = m
  /\ selected_hex' = None
  /\ selected_ov_idx' = None
  /\ status' = m
  /\ event' = Event("_set_mode", <<m>>, "")
  /\ UNCHANGED <<hovered_hex, selVars, placement_rot, camVars, dragVars,
                 mapVars, libVars, disk, probe>>

\* an Escape that returns to View whatever is selected
Escape_AlwaysView ==
  /\ mode' = "view"
  /\ selected_hex' = None
  /\ selected_ov_idx' = None
  /\ status' = "view"
  /\ event' = Event("_escape", <<>>, "view")
  /\ UNCHANGED <<hovered_hex, selVars, placement_rot, camVars, dragVars,
                 mapVars, libVars, disk, probe>>

\* App._escape()
Escape ==
  /\ IF selected_ov_idx # None
     THEN /\ selected_ov_idx' = None
          /\ event' = Event("_escape", <<>>, "deselect")
          /\ UNCHANGED <<mode, selected_hex, status>>
     ELSE /\ mode' = "view"
          /\ selected_hex' = None
          /\ selected_ov_idx' = None
          /\ status' = "view"
          /\ event' = Event("_escape", <<>>, "view")
  /\ UNCHANGED <<hovered_hex, selVars, placement_rot, camVars, dragVars,
                 mapVars, libVars, disk, probe>>

\* ---------------------------------------------------------- file / folder

\* cats[0] if cats else None
FirstKey(d) == IF d # <<>> THEN d[1].key ELSE None

\* App._prompt_folder() when the dialog is cancelled
PromptFolderCancel ==
  /\ event' = Event("_prompt_folder", <<>>, "cancel")
  /\ UNCHANGED <<mode, hovered_hex, selected_hex, selVars, placement_rot,
                 selected_ov_idx, camVars, dragVars, mapVars, libVars, status,
                 disk, probe>>

\* App._prompt_folder() when the dialog returns folder
PromptFolder(folder) ==
  LET r == TileLibrary_load(folder)
  IN  /\ categories' = r.categories
      /\ overlay_categories' = r.overlay_categories
      /\ IF r.raised
         THEN /\ event' = Event("_prompt_folder", <<folder>>, "raised")
              /\ UNCHANGED <<selVars, status>>
         ELSE IF r.ok
         THEN /\ sel_category' = FirstKey(r.categories)
              /\ sel_ov_category' = FirstKey(r.overlay_categories)
              /\ sel_tile_idx' = None
              /\ sel_overlay_idx' = None
              /\ status' = "assets_loaded"
              /\ event' = Event("_prompt_folder", <<folder>>, "ok")
         ELSE /\ event' = Event("_prompt_folder", <<folder>>, "nothing_found")
              /\ UNCHANGED <<selVars, status>>
      /\ UNCHANGED <<mode, hovered_hex, selected_hex, placement_rot,
                     selected_ov_idx, camVars, dragVars, mapVars, disk, probe>>

\* App._new_map(): answer is what askyesno returns
NewMap(answer) ==
  /\ IF answer
     THEN /\ tiles' = <<>>
          /\ overlays' = <<>>
          /\ filepath' = None
          /\ selected_hex' = None
          /\ selected_ov_idx' = None
          /\ status' = "new_map"
     ELSE UNCHANGED <<mapVars, selected_hex, selected_ov_idx, status>>
  /\ event' = Event("_new_map", <<answer>>, "")
  /\ UNCHANGED <<mode, hovered_hex, selVars, placement_rot, camVars, dragVars,
                 libVars, disk, probe>>

\* open(path, "w") succeeds
Writable(path) == path \notin ReadOnlyPaths

\* App._save_map(): choice is what asksaveasfilename returns when the map has
\* no file path yet (None: cancelled)
SaveMap(choice) ==
  LET path == IF filepath # None THEN filepath ELSE choice
  IN  /\ IF path = None
         THEN /\ event' = Event("_save_map", choice, "cancel")
              /\ UNCHANGED <<filepath, disk, status>>
         ELSE IF Writable(path[1])
         THEN /\ disk' = DictSet(disk, path[1], HexMap_save(tiles, overlays))
              /\ filepath' = path
              /\ status' = "saved"
              /\ event' = Event("_save_map", path, "ok")
         ELSE /\ event' = Event("_save_map", path, "error")
              /\ UNCHANGED <<filepath, disk, status>>
      /\ UNCHANGED <<mode, hovered_hex, selected_hex, selVars, placement_rot,
                     selected_ov_idx, camVars, dragVars, tiles, overlays,
                     libVars, probe>>

\* the document open(path) and json.load read
ReadDoc(path) == DictGet(disk, path, FileAtStart(path))

\* App._load_map() when the dialog is cancelled
LoadMapCancel ==
  /\ event' = Event("_load_map", <<>>, "cancel")
  /\ UNCHANGED <<mode, hovered_hex, selected_hex, selVars, placement_rot,
                 selected_ov_idx, camVars, dragVars, mapVars, libVars, status,
                 disk, probe>>

\* App._load_map() when the dialog returns path
LoadMap(path) ==
  LET r == HexMap_load([tiles |-> tiles, overlays |-> overlays,
                        filepath |-> filepath], path, ReadDoc(path))
  IN  /\ tiles' = r.tiles
      /\ overlays' = r.overlays
      /\ filepath' = r.filepath
      /\ IF r.raised
         THEN /\ event' = Event("_load_map", <<path>>, "error")
              /\ UNCHANGED status
         ELSE /\ status' = "loaded_map"
              /\ event' = Event("_load_map", <<path>>, "ok")
      /\ UNCHANGED <<mode, hovered_hex, selected_hex, selVars, placement_rot,
                     selected_ov_idx, camVars, dragVars, libVars, disk, probe>>

\* ------------------------------------------------------------ canvas events

\* App._to_hex(ex, ey), ex and ey in pixels
ToHex(ex, ey) == pixel_to_hex(ex * Unit - cam_x, ey * Unit - cam_y, hex_size)

\* int(x) of the quotient a / b, b > 0: truncation towards zero
TruncDiv(a, b) == IF a >= 0 THEN a \div b ELSE -((-a) \div b)

\* hw = int(self.hex_size * ov.scale * 1.2), in pixels
HitHalfWidth(ov) == TruncDiv(hex_size * ov.scale * 12, 1000)

\* the test of App._overlay_hit for the overlay at index i (0-based)
HitsOverlay(ex, ey, i) ==
  LET ov == overlays[i + 1]
      h == hex_to_pixel(ov.col, ov.row, hex_size)
      cx == cam_x + h[1] + ov.offset_x
      cy == cam_y + h[2] + ov.offset_y
      hw == HitHalfWidth(ov) * Unit
  IN  Abs(ex * Unit - cx) <= hw /\ Abs(ey * Unit - cy) <= hw

\* a hit test that returns the first overlay from the bottom
_overlay_hit_Bottom(ex, ey) ==
  LET hits == {i \in 0..(Len(overlays) - 1) : HitsOverlay(ex, ey, i)}
  IN  IF hits = {} THEN None
      ELSE Some(CHOOSE i \in hits : \A j \in hits : i <= j)

\* App._overlay_hit(ex, ey): the loop runs from the last index down
_overlay_hit(ex, ey) ==
  LET hits == {i \in 0..(Len(overlays) - 1) : HitsOverlay(ex, ey, i)}
  IN  IF hits = {} THEN None
      ELSE Some(CHOOSE i \in hits : \A j \in hits : j <= i)

\* App._on_motion(event); a drag index past the end raises IndexError after
\* hovered_hex is set
Motion(ex, ey) ==
  /\ hovered_hex' = ToHex(ex, ey)
  /\ IF drag_ov_idx = None
     THEN /\ event' = Event("_on_motion", <<ex, ey>>, "hover")
          /\ UNCHANGED overlays
     ELSE IF drag_ov_idx[1] >= Len(overlays)
     THEN /\ event' = Event("_on_motion", <<ex, ey>>, "raised")
          /\ UNCHANGED overlays
     ELSE LET ov == overlays[drag_ov_idx[1] + 1]
              h == hex_to_pixel(ov.col, ov.row, hex_size)
          IN  /\ overlays' =
                   [overlays EXCEPT ![drag_ov_idx[1] + 1] =
                      [ov EXCEPT
                         !.offset_x = ex * Unit - (cam_x + h[1]) - drag_ov_offset[1],
                         !.offset_y = ey * Unit - (cam_y + h[2]) - drag_ov_offset[2]]]
              /\ event' = Event("_on_motion", <<ex, ey>>, "drag")
  /\ UNCHANGED <<mode, selected_hex, selVars, placement_rot, selected_ov_idx,
                 camVars, dragVars, tiles, filepath, libVars, status, disk,
                 probe>>

\* App._on_click(event) in place_overlay mode
ClickOverlayMode(ex, ey) ==
  LET hex == ToHex(ex, ey)
      hit == _overlay_hit(ex, ey)
      ovs == DictGet(overlay_categories, sel_ov_category, <<>>)
  IN  /\ mode = "place_overlay"
      /\ IF hit # None
         THEN LET ov == overlays[hit[1] + 1]
                  h == hex_to_pixel(ov.col, ov.row, hex_size)
              IN  /\ selected_ov_idx' = hit
                  /\ drag_ov_idx' = hit
                  /\ drag_ov_offset' =
                       << ex * Unit - (cam_x + h[1]) - ov.offset_x,
                          ey * Unit - (cam_y + h[2]) - ov.offset_y >>
                  /\ event' = Event("_on_click", <<ex, ey>>, "hit")
                  /\ UNCHANGED <<overlays, status>>
         ELSE IF /\ sel_overlay_idx # None
                 /\ sel_ov_category # None
                 /\ sel_overlay_idx[1] < Len(ovs)
         THEN /\ overlays' =
                   Append(overlays,
                          PlacedOverlay(hex[1], hex[2], ovs[sel_overlay_idx[1] + 1].path,
                                        0, 0, 0, OVERLAY_SCALE_DEFAULT))
              /\ selected_ov_idx' = Some(Len(overlays') - 1)
              /\ status' = "placed_overlay"
              /\ event' = Event("_on_click", <<ex, ey>>, "placed_overlay")
              /\ UNCHANGED dragVars
         ELSE /\ event' = Event("_on_click", <<ex, ey>>, "miss")
              /\ UNCHANGED <<overlays, selected_ov_idx, status, dragVars>>
      /\ UNCHANGED <<mode, hovered_hex, selected_hex, selVars, placement_rot,
                     camVars, tiles, filepath, libVars, disk, probe>>

\* App._on_click(event) in view and place_tile mode
ClickHexMode(ex, ey) ==
  LET hex == ToHex(ex, ey)
      ts == DictGet(categories, sel_category, <<>>)
  IN  /\ mode # "place_overlay"
      /\ selected_hex' = hex
      /\ IF /\ mode = "place_tile"
            /\ sel_tile_idx # None
            /\ sel_category # None
            /\ sel_tile_idx[1] < Len(ts)
         THEN /\ tiles' = DictSet(tiles, hex,
                            PlacedTile(hex[1], hex[2], ts[sel_tile_idx[1] + 1].path,
                                       sel_category, placement_rot))
              /\ status' = "placed_tile"
              /\ event' = Event("_on_click", <<ex, ey>>,
                                IF DictHas(tiles, hex) THEN "overwrote_tile"
                                ELSE "placed_tile")
         ELSE /\ event' = Event("_on_click", <<ex, ey>>, "selected_hex")
              /\ UNCHANGED <<tiles, status>>
      /\ UNCHANGED <<mode, hovered_hex, selVars, placement_rot, selected_ov_idx,
                     camVars, dragVars, overlays, filepath, libVars, disk,
                     probe>>

\* App._on_click(event)
Click(ex, ey) ==
  IF mode = "place_overlay" THEN ClickOverlayMode(ex, ey) ELSE ClickHexMode(ex, ey)

\* App._on_release(event)
Release ==
  /\ drag_ov_idx' = None
  /\ event' = Event("_on_release", <<>>, "")
  /\ UNCHANGED <<mode, hovered_hex, selected_hex, selVars, placement_rot,
                 selected_ov_idx, camVars, drag_ov_offset, mapVars, libVars,
                 status, disk, probe>>

\* App._pan_start(event)
PanStart(ex, ey) ==
  /\ pan_start_mouse' = <<ex * Unit, ey * Unit>>
  /\ pan_start_cam' = <<cam_x, cam_y>>
  /\ event' = Event("_pan_start", <<ex, ey>>, "")
  /\ UNCHANGED <<mode, hovered_hex, selected_hex, selVars, placement_rot,
                 selected_ov_idx, hex_size, cam_x, cam_y, dragVars, mapVars,
                 libVars, status, disk, probe>>

\* App._pan_move(event)
PanMove(ex, ey) ==
  /\ IF pan_start_mouse # None
     THEN /\ cam_x' = pan_start_cam[1] + ex * Unit - pan_start_mouse[1]
          /\ cam_y' = pan_start_cam[2] + ey * Unit - pan_start_mouse[2]
     ELSE UNCHANGED <<cam_x, cam_y>>
  /\ event' = Event("_pan_move", <<ex, ey>>, "")
  /\ UNCHANGED <<mode, hovered_hex, selected_hex, selVars, placement_rot,
                 selected_ov_idx, hex_size, pan_start_mouse, pan_start_cam,
                 dragVars, mapVars, libVars, status, disk, probe>>

\* App._pan_end(event)
PanEnd ==
  /\ pan_start_mouse' = None
  /\ event' = Event("_pan_end", <<>>, "")
  /\ UNCHANGED <<mode, hovered_hex, selected_hex, selVars, placement_rot,
                 selected_ov_idx, hex_size, cam_x, cam_y, pan_start_cam,
                 dragVars, mapVars, libVars, status, disk, probe>>

\* a zoom that lets the hex radius go one step past the largest size
Zoom_PastMax(direction, ex, ey) ==
  LET old == hex_size
      new == Max(MIN_HEX_SIZE, Min(MAX_HEX_SIZE + 5, hex_size + direction * 5))
  IN  /\ hex_size' = new
      /\ cam_x' = ex * Unit - RoundDiv(new * (ex * Unit - cam_x), old)
      /\ cam_y' = ey * Unit - RoundDiv(new * (ey * Unit - cam_y), old)
      /\ event' = Event("_zoom", <<direction, ex, ey>>, "")
      /\ UNCHANGED <<mode, hovered_hex, selected_hex, selVars, placement_rot,
                     selected_ov_idx, pan_start_mouse, pan_start_cam, dragVars,
                     mapVars, libVars, status, disk, probe>>

\* App._zoom(direction, event): scale = new / old is applied in fixed point
Zoom(direction, ex, ey) ==
  LET old == hex_size
      new == Max(MIN_HEX_SIZE, Min(MAX_HEX_SIZE, hex_size + direction * 5))
  IN  /\ hex_size' = new
      /\ cam_x' = ex * Unit - RoundDiv(new * (ex * Unit - cam_x), old)
      /\ cam_y' = ey * Unit - RoundDiv(new * (ey * Unit - cam_y), old)
      /\ event' = Event("_zoom", <<direction, ex, ey>>, "")
      /\ UNCHANGED <<mode, hovered_hex, selected_hex, selVars, placement_rot,
                     selected_ov_idx, pan_start_mouse, pan_start_cam, dragVars,
                     mapVars, libVars, status, disk, probe>>

\* ------------------------------------------------------------------ actions

\* App._rotate_tile(delta)
RotateTile(delta) ==
  /\ IF mode # "place_tile"
     THEN /\ event' = Event("_rotate_tile", <<delta>>, "ignored")
          /\ UNCHANGED <<placement_rot, tiles>>
     ELSE /\ placement_rot' = (placement_rot + delta) % ROTATIONS
          /\ IF selected_hex # None /\ DictHas(tiles, selected_hex)
             THEN /\ tiles' = DictSet(tiles, selected_hex,
                                [DictGet(tiles, selected_hex, <<>>) EXCEPT
                                   !.rotation = placement_rot'])
                  /\ event' = Event("_rotate_tile", <<delta>>, "rotated_tile")
             ELSE /\ event' = Event("_rotate_tile", <<delta>>, "rotated")
                  /\ UNCHANGED tiles
  /\ UNCHANGED <<mode, hovered_hex, selected_hex, selVars, selected_ov_idx,
                 camVars, dragVars, overlays, filepath, libVars, status, disk,
                 probe>>

\* a pop that removes the last element whatever the index
PopAt_Last(s, idx) == SubSeq(s, 1, Len(s) - 1)

\* overlays.pop(idx)
PopAt(s, idx) == SubSeq(s, 1, idx) \o SubSeq(s, idx + 2, Len(s))

\* App._delete_overlay(idx) for idx = <<i>>; the caller's other variables
\* are left to it
DeleteOverlayAt(idx, handler) ==
  IF 0 <= idx[1] /\ idx[1] < Len(overlays)
  THEN /\ overlays' = PopAt(overlays, idx[1])
       /\ selected_ov_idx' = None
       /\ status' = "overlay_removed"
       /\ event' = Event(handler, idx, "overlay_removed")
  ELSE /\ event' = Event(handler, idx, "no_overlay")
       /\ UNCHANGED <<overlays, selected_ov_idx, status>>

\* App._delete_action()
DeleteAction ==
  /\ IF mode = "place_overlay" /\ selected_ov_idx # None
     THEN /\ DeleteOverlayAt(selected_ov_idx, "_delete_action")
          /\ UNCHANGED tiles
     ELSE IF selected_hex # None /\ DictHas(tiles, selected_hex)
     THEN /\ tiles' = DictPop(tiles, selected_hex)
          /\ status' = "tile_removed"
          /\ event' = Event("_delete_action", selected_hex, "tile_removed")
          /\ UNCHANGED <<overlays, selected_ov_idx>>
     ELSE /\ event' = Event("_delete_action", <<>>, "nothing")
          /\ UNCHANGED <<tiles, overlays, selected_ov_idx, status>>
  /\ UNCHANGED <<mode, hovered_hex, selected_hex, selVars, placement_rot,
                 camVars, dragVars, filepath, libVars, disk, probe>>

\* the sidebar's "Delete This Overlay" button, built by
\* _build_overlay_sidebar while an overlay is selected:
\* _delete_overlay(self.selected_ov_idx)
DeleteOverlayButton ==
  /\ mode = "place_overlay"
  /\ selected_ov_idx # None
  /\ DeleteOverlayAt(selected_ov_idx, "_delete_overlay")
  /\ UNCHANGED <<mode, hovered_hex, selected_hex, selVars, placement_rot,
                 camVars, dragVars, tiles, filepath, libVars, disk, probe>>

\* (ov.rotation + delta) % 360, in degrees
RotatedBy(rotation, delta) == (rotation + delta) % 360

\* App._rotate_overlay(delta)
RotateOverlay(delta) ==
  /\ IF selected_ov_idx # None /\ selected_ov_idx[1] < Len(overlays)
     THEN /\ overlays' =
               [overlays EXCEPT ![selected_ov_idx[1] + 1].rotation =
                  RotatedBy(@, delta)]
          /\ event' = Event("_rotate_overlay", <<delta>>, "rotated")
     ELSE /\ event' = Event("_rotate_overlay", <<delta>>, "ignored")
          /\ UNCHANGED overlays
  /\ UNCHANGED <<mode, hovered_hex, selected_hex, selVars, placement_rot,
                 selected_ov_idx, camVars, dragVars, tiles, filepath, libVars,
                 status, disk, probe>>

\* round(max(0.1, min(5.0, scale + delta)), 2), in hundredths
ClampScale(x) == Max(SCALE_MIN, Min(SCALE_MAX, x))

\* App._scale_overlay(delta), delta in hundredths
ScaleOverlay(delta) ==
  /\ IF selected_ov_idx # None /\ selected_ov_idx[1] < Len(overlays)
     THEN /\ overlays' =
               [overlays EXCEPT ![selected_ov_idx[1] + 1].scale =
                  ClampScale(@ + delta)]
          /\ event' = Event("_scale_overlay", <<delta>>, "scaled")
     ELSE /\ event' = Event("_scale_overlay", <<delta>>, "ignored")
          /\ UNCHANGED overlays
  /\ UNCHANGED <<mode, hovered_hex, selected_hex, selVars, placement_rot,
                 selected_ov_idx, camVars, dragVars, tiles, filepath, libVars,
                 status, disk, probe>>

\* ------------------------------------------------------------------ sidebar
\* The sidebar's tabs and thumbnails are those _rebuild_sidebar builds from
\* the current mode, library and selected category.

\* App._sel_tile_cat(cat): a tab of the tile sidebar
SelTileCat(cat) ==
  /\ mode = "place_tile"
  /\ DictHas(categories, cat)
  /\ sel_category' = cat
  /\ sel_tile_idx' = None
  /\ event' = Event("_sel_tile_cat", cat, "")
  /\ UNCHANGED <<mode, hovered_hex, selected_hex, placement_rot,
                 sel_ov_category, sel_overlay_idx, selected_ov_idx, camVars,
                 dragVars, mapVars, libVars, status, disk, probe>>

\* App._sel_tile(idx): a thumbnail of the tile sidebar
SelTile(idx) ==
  /\ mode = "place_tile"
  /\ idx < Len(DictGet(categories, sel_category, <<>>))
  /\ sel_tile_idx' = Some(idx)
  /\ status' = "selected_tile"
  /\ event' = Event("_sel_tile", <<idx>>, "")
  /\ UNCHANGED <<mode, hovered_hex, selected_hex, sel_category, placement_rot,
                 sel_ov_category, sel_overlay_idx, selected_ov_idx, camVars,
                 dragVars, mapVars, libVars, disk, probe>>

\* App._sel_ov_cat(cat): a tab of the overlay sidebar
SelOvCat(cat) ==
  /\ mode = "place_overlay"
  /\ DictHas(overlay_categories, cat)
  /\ sel_ov_category' = cat
  /\ sel_overlay_idx' = None
  /\ event' = Event("_sel_ov_cat", cat, "")
  /\ UNCHANGED <<mode, hovered_hex, selected_hex, sel_category, sel_tile_idx,
                 placement_rot, selected_ov_idx, camVars, dragVars, mapVars,
                 libVars, status, disk, probe>>

\* App._sel_overlay(idx): a thumbnail of the overlay sidebar
SelOverlay(idx) ==
  /\ mode = "place_overlay"
  /\ idx < Len(DictGet(overlay_categories, sel_ov_category, <<>>))
  /\ sel_overlay_idx' = Some(idx)
  /\ status' = "selected_overlay"
  /\ event' = Event("_sel_overlay", <<idx>>, "")
  /\ UNCHANGED <<mode, hovered_hex, selected_hex, sel_category, sel_tile_idx,
                 placement_rot, sel_ov_category, selected_ov_idx, camVars,
                 dragVars, mapVars, libVars, disk, probe>>

\* ============================================================ specifications

Modes == {"view", "place_tile", "place_overlay"}

\* ---------------------------------------------------------- hex round trip

\* hex coordinates -MaxCoord..MaxCoord are probed
MaxCoord == 3

HexSizes == MIN_HEX_SIZE..MAX_HEX_SIZE

\* the editor as constructed, with one (col, row, size) to probe
InitHex ==
  /\ InitEditor
  /\ \E c \in -MaxCoord..MaxCoord, r \in -MaxCoord..MaxCoord, s \in HexSizes :
       probe = [col |-> c, row |-> r, size |-> s, pixel |-> None, hex |-> None]

\* pixel_to_hex(*hex_to_pixel(col, row, size), size)
HexRoundTrip ==
  /\ probe.hex = None
  /\ LET p == hex_to_pixel(probe.col, probe.row, probe.size)
     IN  probe' = [probe EXCEPT !.pixel = p,
                                !.hex = pixel_to_hex(p[1], p[2], probe.size)]
  /\ UNCHANGED <<mode, hovered_hex, selected_hex, selVars, placement_rot,
                 selected_ov_idx, camVars, dragVars, mapVars, libVars, status,
                 disk, event>>

NextHex == HexRoundTrip

SpecHex == InitHex /\ [][NextHex]_vars

\* ------------------------------------------------------------ asset library

LibFolders == {FolderBundle, FolderAlt, FolderEmpty, FolderUnreadable}

\* the pointer over the centre of hex (0,0) of the initial camera
PointOrigin == <<550, 380>>

\* Open Folder with every kind of folder, the sidebar's tabs and thumbnails,
\* the mode buttons and a click on one hex
NextLib ==
  \/ PromptFolderCancel
  \/ \E f \in LibFolders : PromptFolder(f)
  \/ \E m \in Modes : SetMode(m)
  \/ \E c \in Range(DictKeys(categories)) : SelTileCat(c)
  \/ \E i \in 0..(Len(DictGet(categories, sel_category, <<>>)) - 1) : SelTile(i)
  \/ \E c \in Range(DictKeys(overlay_categories)) : SelOvCat(c)
  \/ \E i \in 0..(Len(DictGet(overlay_categories, sel_ov_category, <<>>)) - 1) :
       SelOverlay(i)
  \/ Click(PointOrigin[1], PointOrigin[2])

SpecLib == Init /\ [][NextLib]_vars

\* ------------------------------------------------------------- tile editing

\* the small bundle's catalog, tile placement, rotation and removal on one
\* hex, New Map, and Load Map of a hand-edited file with a tile on another hex
NextTiles ==
  \/ PromptFolder(FolderSmall)
  \/ \E m \in Modes : SetMode(m)
  \/ \E i \in 0..(Len(DictGet(categories, sel_category, <<>>)) - 1) : SelTile(i)
  \/ Click(PointOrigin[1], PointOrigin[2])
  \/ \E d \in {-1, 1} : RotateTile(d)
  \/ DeleteAction
  \/ NewMap(TRUE)
  \/ LoadMap("wild.hexmap")

SpecTiles == Init /\ [][NextTiles]_vars

\* ------------------------------------------------------------- save and load

\* tile mappings the editor reaches with the small bundle: none, one tile at
\* (0,0) at each rotation step, and two tiles
FileTileDicts ==
  {<<>>}
  \cup {<<[key |-> <<0, 0>>, value |-> PlacedTile(0, 0, "hill/a.png", Hill, r)]>> :
          r \in 0..(ROTATIONS - 1)}
  \cup {<<[key |-> <<2, -1>>, value |-> PlacedTile(2, -1, "hill/a.png", Hill, 3)],
          [key |-> <<0, 0>>, value |-> PlacedTile(0, 0, "hill/b.png", Hill, r)]>> :
          r \in {0, 5}}

\* overlays the editor reaches: placed at (0,0), left in place or dragged by
\* (90, 52) pixels, rotated by three steps or not, scaled up or not
FileOverlays ==
  {PlacedOverlay(0, 0, "fog/m.png", o[1], o[2], rot, sc) :
     o \in {<<0, 0>>, <<90 * Unit, 52 * Unit>>}, rot \in {0, 45},
     sc \in {OVERLAY_SCALE_DEFAULT, 120}}

\* overlay sequences of length 0, 1 and 2
FileOverlaySeqs ==
  {<<>>}
  \cup {<<o>> : o \in FileOverlays}
  \cup {<<PlacedOverlay(1, 0, "fog/m.png", 0, 0, 345, SCALE_MAX), o>> :
          o \in FileOverlays}

\* the editor in view mode with the small bundle open and a map edited before
InitFile ==
  /\ mode = "view"
  /\ hovered_hex = None
  /\ selected_hex = None
  /\ sel_category = Hill
  /\ sel_tile_idx = None
  /\ placement_rot = 0
  /\ sel_ov_category = <<"F","o","g">>
  /\ sel_overlay_idx = None
  /\ selected_ov_idx = None
  /\ pan_start_mouse = None
  /\ pan_start_cam = None
  /\ drag_ov_idx = None
  /\ drag_ov_offset = <<0, 0>>
  /\ hex_size = HEX_SIZE_DEFAULT
  /\ cam_x = 550 * Unit
  /\ cam_y = 380 * Unit
  /\ \E ts \in FileTileDicts, os \in FileOverlaySeqs :
       /\ tiles = ts
       /\ overlays = os
       /\ probe = [tiles |-> ts, overlays |-> os]
  /\ filepath = None
  /\ categories = TileLibrary_load(FolderSmall).categories
  /\ overlay_categories = TileLibrary_load(FolderSmall).overlay_categories
  /\ status = "view"
  /\ disk = <<>>
  /\ event = Event("_set_mode", <<"view">>, "")

\* files Load Map is pointed at: the file Save writes (missing until then),
\* and files that fail at each stage of HexMap.load
FileDocs ==
  {"out.hexmap", "badtile.hexmap", "badoverlay.hexmap", "array.hexmap",
   "garbage.hexmap"}

\* Save (to out.hexmap, to a read-only place, cancelled), New Map, Load Map
NextFile ==
  \/ \E c \in {None, Some("out.hexmap"), Some("ro/out.hexmap")} : SaveMap(c)
  \/ NewMap(TRUE)
  \/ LoadMapCancel
  \/ \E f \in FileDocs : LoadMap(f)

SpecFile == InitFile /\ [][NextFile]_vars

\* ---------------------------------------------------------- overlay editing

\* the pointer over the centres of hexes (2,0) and (4,0) of the initial camera
PointEast == <<730, 380>>

PointFar == <<910, 380>>

\* overlays placed on three hexes too far apart to overlap, picked by a
\* click, released, and removed with the Delete key or the sidebar's button
NextOverlays ==
  \/ PromptFolder(FolderSmall)
  \/ \E m \in {"view", "place_overlay"} : SetMode(m)
  \/ \E i \in 0..(Len(DictGet(overlay_categories, sel_ov_category, <<>>)) - 1) :
       SelOverlay(i)
  \/ \E p \in {PointOrigin, PointEast, PointFar} : Click(p[1], p[2])
  \/ Release
  \/ DeleteAction
  \/ DeleteOverlayButton

SpecOverlays == Init /\ [][NextOverlays]_vars

\* one overlay placed and picked, scaled a step at a time with the keys, and
\* Load Map of a hand-edited file
NextScale ==
  \/ PromptFolder(FolderSmall)
  \/ SetMode("place_overlay")
  \/ \E i \in 0..(Len(DictGet(overlay_categories, sel_ov_category, <<>>)) - 1) :
       SelOverlay(i)
  \/ Click(PointOrigin[1], PointOrigin[2])
  \/ \E d \in {-10, 10} : ScaleOverlay(d)
  \/ NewMap(TRUE)
  \/ LoadMap("wild.hexmap")

SpecScale == Init /\ [][NextScale]_vars

\* one overlay placed and picked, rotated a step at a time with the keys, and
\* Load Map of a hand-edited file
NextRotate ==
  \/ PromptFolder(FolderSmall)
  \/ SetMode("place_overlay")
  \/ \E i \in 0..(Len(DictGet(overlay_categories, sel_ov_category, <<>>)) - 1) :
       SelOverlay(i)
  \/ Click(PointOrigin[1], PointOrigin[2])
  \/ \E d \in {-15, 15} : RotateOverlay(d)
  \/ NewMap(TRUE)
  \/ LoadMap("wild.hexmap")

SpecRotate == Init /\ [][NextRotate]_vars

\* ------------------------------------------------------------------- modes

\* the mode buttons and the Escape key, with tiles and overlays placed on two
\* hexes so that there is a hex or an overlay selected when they are pressed
NextModes ==
  \/ PromptFolder(FolderSmall)
  \/ \E m \in Modes : SetMode(m)
  \/ \E i \in 0..(Len(DictGet(categories, sel_category, <<>>)) - 1) : SelTile(i)
  \/ \E i \in 0..(Len(DictGet(overlay_categories, sel_ov_category, <<>>)) - 1) :
       SelOverlay(i)
  \/ \E p \in {PointOrigin, PointEast} : Click(p[1], p[2])
  \/ Escape

SpecModes == Init /\ [][NextModes]_vars

\* ---------------------------------------------------------- overlay dragging

\* the pointer 30 pixels right of and below the centre of hex (0,0): inside
\* hex (0,0) and inside the hit box of an overlay centred on it
PointNear == <<580, 410>>

\* at most MaxOverlays overlays are placed by clicks
MaxOverlays == 2

\* overlays placed with a click, picked up, dragged to another hex and
\* released, with the Delete key, New Map and Load Map pressed at any moment.
\* The button goes down only after it went up: a pointer-down that began a
\* drag is followed by a release before the next pointer-down (a release
\* with no drag going on changes nothing).
NextDrag ==
  \/ PromptFolder(FolderSmall)
  \/ SetMode("place_overlay")
  \/ \E i \in 0..(Len(DictGet(overlay_categories, sel_ov_category, <<>>)) - 1) :
       SelOverlay(i)
  \/ \E p \in {PointNear, PointEast} :
       /\ drag_ov_idx = None
       /\ Len(overlays) < MaxOverlays \/ _overlay_hit(p[1], p[2]) # None
       /\ Click(p[1], p[2])
  \/ Motion(PointEast[1], PointEast[2])
  \/ Release
  \/ DeleteAction
  \/ NewMap(TRUE)
  \/ LoadMap("old.hexmap")

SpecDrag == Init /\ [][NextDrag]_vars

\* -------------------------------------------------------------------- zoom

\* the wheel turned either way with the pointer three hex radii right of the
\* camera origin, the mode buttons, a click and New Map
NextZoom ==
  \/ \E d \in {-1, 1} : Zoom(d, PointEast[1], PointEast[2])
  \/ \E m \in Modes : SetMode(m)
  \/ Click(PointOrigin[1], PointOrigin[2])
  \/ NewMap(TRUE)

SpecZoom == Init /\ [][NextZoom]_vars

\* ------------------------------------------------------- tiles and overlays

\* tiles loaded from a file, one overlay placed on top of a tile, and every
\* pointer and key event that edits a tile or an overlay, pressed in View and
\* in Place Overlay mode.  The button goes down only after it went up, and a
\* click places an overlay only on a map without one.
NextFrame ==
  \/ PromptFolder(FolderSmall)
  \/ SetMode("place_overlay")
  \/ SelOverlay(0)
  \/ /\ drag_ov_idx = None
     /\ mode = "place_overlay" =>
          (overlays = <<>> \/ _overlay_hit(PointOrigin[1], PointOrigin[2]) # None)
     /\ Click(PointOrigin[1], PointOrigin[2])
  \/ Motion(PointEast[1], PointEast[2])
  \/ Release
  \/ DeleteAction
  \/ RotateTile(1)
  \/ RotateOverlay(15)
  \/ ScaleOverlay(-10)
  \/ NewMap(TRUE)
  \/ LoadMap("tiles.hexmap")

SpecFrame == Init /\ [][NextFrame]_vars

\* ==================================================================== claims

\* the Load Map step just taken failed
LoadFailed == event'.handler = "_load_map" /\ event'.outcome = "error"

\* C1: map load is atomic: whenever Load Map fails, the tile mapping, the
\* overlay sequence and the file path of the in-memory map are exactly what
\* they were before the attempt.
C1_FailedLoadKeepsMap == [][LoadFailed => UNCHANGED mapVars]_vars

\* two tile mappings hold the same coordinates with the same tile on each
SameTileMapping(a, b) == Range(a) = Range(b)

\* Load Map has just read, with success, the document Save wrote for the map
\* the editor started with
LoadedSavedProbe ==
  /\ event.handler = "_load_map"
  /\ event.outcome = "ok"
  /\ DictHas(disk, event.args[1])
  /\ ReadDoc(event.args[1]) = HexMap_save(probe.tiles, probe.overlays)

\* saving (ts, ovs) and loading the document into an empty map gives (ts, ovs)
SaveLoadSame(ts, ovs) ==
  LET r == HexMap_load([tiles |-> <<>>, overlays |-> <<>>, filepath |-> None],
                       "out.hexmap", HexMap_save(ts, ovs))
  IN  /\ ~r.raised
      /\ SameTileMapping(r.tiles, ts)
      /\ r.overlays = ovs

\* C2: save followed by load is a round trip: loading the document saved for
\* a map yields the same tile mapping (same coordinates, each with the same
\* path, category and rotation step) and the same overlay sequence in the same
\* order with every field equal; this holds for the map Load Map has just read
\* back and for the map of every reachable state.
C2_SaveLoadRoundTrip ==
  /\ LoadedSavedProbe =>
       SameTileMapping(tiles, probe.tiles) /\ overlays = probe.overlays
  /\ SaveLoadSame(tiles, overlays)

\* a map of two tiles and two overlays with rotations, a drag offset and
\* scales off their defaults has been saved and read back
C2_Witness ==
  /\ LoadedSavedProbe
  /\ Len(probe.tiles) = 2
  /\ DictGet(probe.tiles, <<0, 0>>, None).rotation = 5
  /\ Len(probe.overlays) = 2
  /\ probe.overlays[2].offset_x = 90 * Unit
  /\ probe.overlays[2].rotation = 45
  /\ probe.overlays[2].scale = 120
  /\ Len(tiles) = 2
  /\ Len(overlays) = 2

\* C7: overlay scale is always clamped to [0.1, 5.0]: no overlay of any
\* reachable map has a scale outside the range, and a scale step on the
\* selected overlay leaves its scale within the range.
C7_ScaleClamped ==
  \A i \in 1..Len(overlays) :
    overlays[i].scale >= SCALE_MIN /\ overlays[i].scale <= SCALE_MAX

\* the rotation after n presses of the +15 degrees key
RECURSIVE Turned(_, _)
Turned(rotation, n) ==
  IF n = 0 THEN rotation ELSE Turned(RotatedBy(rotation, 15), n - 1)

\* C8: overlay rotation wraps modulo 360: a rotate step of +15 or -15 degrees
\* leaves the selected overlay's rotation in [0,360), and +15 degrees applied
\* twenty-four times in a row to any overlay of the map returns its rotation
\* to the value it started with.
C8_RotationWraps ==
  /\ (event.handler = "_rotate_overlay" /\ event.outcome = "rotated") =>
       overlays[selected_ov_idx[1] + 1].rotation \in 0..359
  /\ \A i \in 1..Len(overlays) :
       Turned(overlays[i].rotation, 24) = overlays[i].rotation

\* the step just taken removed the overlay at index event'.args[1]
OverlayRemoved ==
  /\ event'.handler \in {"_delete_action", "_delete_overlay"}
  /\ event'.outcome = "overlay_removed"

\* the step just taken is a delete that found an overlay selected, at a valid
\* index, in overlay mode
DeleteOfSelected ==
  /\ event'.handler \in {"_delete_action", "_delete_overlay"}
  /\ mode = "place_overlay"
  /\ selected_ov_idx # None
  /\ selected_ov_idx[1] < Len(overlays)

\* C9: deleting the overlay at a valid index i removes exactly that overlay:
\* overlays below i keep their index, each overlay at j > i moves to j-1 with
\* all fields unchanged, the list is one shorter and afterwards no overlay is
\* selected (so deleting the last remaining overlay leaves an empty list and
\* no selection).
C9_DeleteOverlayShifts ==
  [][/\ DeleteOfSelected =>
          OverlayRemoved /\ event'.args = selected_ov_idx
     /\ OverlayRemoved =>
          LET i == event'.args[1]
          IN  /\ Len(overlays') = Len(overlays) - 1
              /\ \A j \in 0..(i - 1) : overlays'[j + 1] = overlays[j + 1]
              /\ \A j \in (i + 1)..(Len(overlays) - 1) :
                   overlays'[j] = overlays[j + 1]
              /\ selected_ov_idx' = None]_vars

\* the middle one of three overlays has been deleted: the overlays on hexes
\* (0,0) and (4,0) remain, in the order they were placed
C9_Witness ==
  /\ event.outcome = "overlay_removed"
  /\ event.args = <<1>>
  /\ Len(overlays) = 2
  /\ overlays[1].col = 0
  /\ overlays[2].col = 4
  /\ selected_ov_idx = None

\* C10: for every integer column and row, negative ones included, and every
\* hex size in [20,160], pixel_to_hex of the pixel centre hex_to_pixel returns
\* is exactly (col, row).
C10_HexRoundTrip ==
  probe.hex # None => probe.hex = <<probe.col, probe.row>>

\* a negative odd column at the largest size has been taken through both
\* functions
C10_Witness ==
  /\ probe.hex # None
  /\ probe.col = -3
  /\ probe.row = -2
  /\ probe.size = MAX_HEX_SIZE
  /\ probe.pixel = hex_to_pixel(-3, -2, MAX_HEX_SIZE)

\* the selected tile catalog entry exists: a click in place_tile mode places it
TilePlaceable ==
  /\ sel_tile_idx # None
  /\ sel_category # None
  /\ sel_tile_idx[1] < Len(DictGet(categories, sel_category, <<>>))

\* the selected overlay catalog entry exists
OverlayPlaceable ==
  /\ sel_overlay_idx # None
  /\ sel_ov_category # None
  /\ sel_overlay_idx[1] < Len(DictGet(overlay_categories, sel_ov_category, <<>>))

\* Open Folder was answered with a folder that is unreadable or holds no set
FolderLoadFailed ==
  /\ event'.handler = "_prompt_folder"
  /\ event'.outcome \in {"raised", "nothing_found"}

\* C3: a failed asset-folder load changes no state: the tile catalog, the
\* overlay catalog, the selected categories and the selected catalog entries
\* are unchanged, so what could be placed before can be placed after.
C3_FailedFolderLoadKeepsState ==
  [][FolderLoadFailed =>
       /\ UNCHANGED <<libVars, selVars>>
       /\ (TilePlaceable => TilePlaceable')
       /\ (OverlayPlaceable => OverlayPlaceable')]_vars

\* the folder d of the scanned root is in the tile catalog
InTileCatalog(d) ==
  \E i \in 1..Len(categories) :
    \E j \in 1..Len(categories[i].value) :
      categories[i].value[j].category = d.name

\* the folder d of the scanned root is in the overlay catalog
InOverlayCatalog(d) ==
  \E i \in 1..Len(overlay_categories) :
    \E j \in 1..Len(overlay_categories[i].value) :
      overlay_categories[i].value[j].category = d.name

\* C4: right after a folder is scanned, every subfolder with an image is an
\* overlay set iff its name contains "overlay", and a tile set iff it does
\* not and its name contains a tile keyword; a folder matching neither is in
\* neither catalog.
C4_Classification ==
  (event.handler = "_prompt_folder" /\ event.outcome \in {"ok", "nothing_found"}) =>
    \A k \in 1..Len(event.args[1].entries) :
      LET d == event.args[1].entries[k]
      IN  (d.is_dir /\ d.pngs # <<>>) =>
            /\ InOverlayCatalog(d) <=> _is_overlay_folder(d.name)
            /\ InTileCatalog(d) <=>
                 (~_is_overlay_folder(d.name) /\ _is_tile_folder(d.name))

\* a pointer-down in place_tile mode with a catalog entry selected
PlacingClick ==
  /\ event'.handler = "_on_click"
  /\ mode = "place_tile"
  /\ TilePlaceable

\* the hex under the pointer-down of this step
ClickedHex == ToHex(event'.args[1], event'.args[2])

\* C5: placing a tile at a hex that already holds one overwrites it: the
\* number of tiles is unchanged, the entry at that hex records the selected
\* asset path, the category and the current placement rotation, and every
\* tile at any other hex is unchanged.
C5_PlaceOverwrites ==
  [][(PlacingClick /\ DictHas(tiles, ClickedHex)) =>
       /\ Len(tiles') = Len(tiles)
       /\ DictGet(tiles', ClickedHex, <<>>) =
            PlacedTile(ClickedHex[1], ClickedHex[2],
                       DictGet(categories, sel_category, <<>>)[sel_tile_idx[1] + 1].path,
                       sel_category, placement_rot)
       /\ \A i \in 1..Len(tiles) :
            tiles[i].key # ClickedHex =>
              /\ DictHas(tiles', tiles[i].key)
              /\ DictGet(tiles', tiles[i].key, <<>>) = tiles[i].value]_vars

\* hill/b.png at rotation 2 has just replaced the tile at (0,0) while the
\* loaded tile at (2,-1) is on the map
C5_Witness ==
  /\ event.handler = "_on_click"
  /\ event.outcome = "overwrote_tile"
  /\ Len(tiles) = 2
  /\ DictHas(tiles, <<2, -1>>)
  /\ DictGet(tiles, <<0, 0>>, <<>>) =
       PlacedTile(0, 0, "hill/b.png", Hill, 2)

\* C6: in every reachable state every placed tile's rotation step is an
\* integer in [0,6).
C6_TileRotationInRange ==
  \A i \in 1..Len(tiles) : tiles[i].value.rotation \in 0..(ROTATIONS - 1)

\* C11: Escape with an overlay selected only deselects it, leaving the mode
\* and the map unchanged; Escape with no overlay selected sets the mode to
\* View; hence the second of two consecutive Escape presses always leaves the
\* editor in View mode with no overlay selected.
C11_Escape ==
  [][event'.handler = "_escape" =>
       /\ selected_ov_idx # None =>
            /\ selected_ov_idx' = None
            /\ UNCHANGED <<mode, mapVars>>
       /\ selected_ov_idx = None => mode' = "view"
       /\ (selected_ov_idx = None \/ event.handler = "_escape") =>
            mode' = "view" /\ selected_ov_idx' = None]_vars

\* the second of two Escape presses has brought an editor with overlays on
\* the map back to View mode
C11_Witness ==
  /\ event.handler = "_escape"
  /\ event.outcome = "view"
  /\ mode = "view"
  /\ selected_ov_idx = None
  /\ Len(overlays) = 2

\* C12: mode selection is unguarded and clears the selection: choosing View,
\* Place Tile or Place Overlay is possible in every state and makes that the
\* current mode, right after it there is no selected hex and no selected
\* overlay, and the map's tiles and overlays are unchanged.
C12_SetMode ==
  /\ [](\A m \in Modes : ENABLED SetMode(m))
  /\ [][event'.handler = "_set_mode" =>
          /\ mode' = event'.args[1]
          /\ selected_hex' = None
          /\ selected_ov_idx' = None
          /\ UNCHANGED <<tiles, overlays>>]_vars

\* Place Tile has been entered on a map with tiles and overlays
C12_Witness ==
  /\ event = Event("_set_mode", <<"place_tile">>, "")
  /\ mode = "place_tile"
  /\ Len(tiles) = 2
  /\ Len(overlays) = 2

\* C13: in Place Tile mode a pointer-down at a hex sets the selected hex to
\* it; whenever a catalog entry is selected it places (or overwrites) a tile at
\* that hex with the current placement rotation step, and when no catalog
\* entry is selected it leaves the tile mapping unchanged.
C13_PlaceTileClick ==
  [][(event'.handler = "_on_click" /\ mode = "place_tile") =>
       /\ selected_hex' = ClickedHex
       /\ sel_tile_idx # None =>
            /\ DictHas(tiles', ClickedHex)
            /\ DictGet(tiles', ClickedHex, <<>>).category = sel_category
            /\ DictGet(tiles', ClickedHex, <<>>).rotation = placement_rot
       /\ sel_tile_idx = None => UNCHANGED tiles]_vars

\* a pointer-down in place_overlay mode that misses every placed overlay
MissingClick ==
  /\ event'.handler = "_on_click"
  /\ mode = "place_overlay"
  /\ _overlay_hit(event'.args[1], event'.args[2]) = None

\* C15: in Place Overlay mode a pointer-down that misses every placed overlay,
\* with an overlay catalog entry selected, appends exactly one overlay at the
\* end of the sequence, anchored at the clicked hex with offset (0,0),
\* rotation 0 and scale 0.5, selects it and leaves the earlier overlays and
\* their order unchanged; with no catalog entry selected it changes nothing in
\* the map.
C15_PlaceOverlayClick ==
  [][MissingClick =>
       /\ sel_overlay_idx # None =>
            /\ Len(overlays') = Len(overlays) + 1
            /\ SubSeq(overlays', 1, Len(overlays)) = overlays
            /\ LET o == overlays'[Len(overlays')]
               IN  /\ <<o.col, o.row>> = ClickedHex
                   /\ <<o.offset_x, o.offset_y>> = <<0, 0>>
                   /\ o.rotation = 0
                   /\ o.scale = OVERLAY_SCALE_DEFAULT
            /\ selected_ov_idx' = Some(Len(overlays))
            /\ UNCHANGED tiles
       /\ sel_overlay_idx = None => UNCHANGED <<tiles, overlays>>]_vars

\* the indices of the placed overlays whose hit box holds the pointer of this
\* step's pointer-down
HitSet ==
  {i \in 0..(Len(overlays) - 1) :
     HitsOverlay(event'.args[1], event'.args[2], i)}

\* C14: in Place Overlay mode a pointer-down inside the hit box of one or more
\* placed overlays selects and starts dragging the topmost of them (the
\* highest index), appends no overlay and changes no field of any overlay.
C14_HitPicksTopmost ==
  [][(event'.handler = "_on_click" /\ mode = "place_overlay" /\ HitSet # {}) =>
       /\ selected_ov_idx' # None
       /\ selected_ov_idx'[1] \in HitSet
       /\ \A j \in HitSet : j <= selected_ov_idx'[1]
       /\ drag_ov_idx' = selected_ov_idx'
       /\ overlays' = overlays]_vars

\* a pointer-down inside the hit boxes of both overlays of the map has picked
\* the upper one
C14_Witness ==
  /\ event.handler = "_on_click"
  /\ event.outcome = "hit"
  /\ Len(overlays) = 2
  /\ HitsOverlay(event.args[1], event.args[2], 0)
  /\ HitsOverlay(event.args[1], event.args[2], 1)
  /\ overlays[1] # overlays[2]
  /\ selected_ov_idx = <<1>>
  /\ drag_ov_idx = <<1>>

\* the step just taken is a pointer move
PointerMove == event'.handler = "_on_motion"

\* the step before this one was a pointer-down or a pointer move, so that
\* event.args is where the pointer was
PointerWasAt == event.handler \in {"_on_click", "_on_motion"}

\* C16: an overlay drag lasts from the pointer-down that hit the overlay until
\* the next release: during the drag a pointer move changes only the dragged
\* overlay's pixel offset, by exactly the pointer's displacement, so that the
\* overlay keeps its position relative to the pointer; with no drag going on
\* a pointer move changes no overlay.
C16_DragTracksPointer ==
  [][PointerMove =>
       /\ drag_ov_idx = None => overlays' = overlays
       /\ drag_ov_idx # None =>
            /\ drag_ov_idx[1] < Len(overlays)
            /\ Len(overlays') = Len(overlays)
            /\ \A i \in 1..Len(overlays) :
                 IF i = drag_ov_idx[1] + 1
                 THEN /\ overlays'[i] =
                           [overlays[i] EXCEPT
                              !.offset_x = overlays'[i].offset_x,
                              !.offset_y = overlays'[i].offset_y]
                      /\ PointerWasAt =>
                           /\ overlays'[i].offset_x - overlays[i].offset_x =
                                (event'.args[1] - event.args[1]) * Unit
                           /\ overlays'[i].offset_y - overlays[i].offset_y =
                                (event'.args[2] - event.args[2]) * Unit
                 ELSE overlays'[i] = overlays[i]]_vars

\* C18: the index of the overlay being dragged is never stale: in every
\* reachable state it is unset or a valid index into the overlay sequence, so
\* a pointer move never indexes past the end of the sequence.
C18_DragIndexValid ==
  /\ drag_ov_idx # None => drag_ov_idx[1] < Len(overlays)
  /\ ~(event.handler = "_on_motion" /\ event.outcome = "raised")

\* C19: the selected-overlay index is always valid: in every reachable state
\* it is unset or strictly less than the length of the overlay sequence.
C19_SelectedIndexValid ==
  selected_ov_idx # None => selected_ov_idx[1] < Len(overlays)

\* C17: the hex radius stays within [20,160] in every reachable state: it
\* starts at 60, every zoom gesture changes it by exactly 5 in the scroll
\* direction, except that a zoom-in at 160 and a zoom-out at 20 leave it
\* unchanged, and no other action changes it.
C17_HexSizeInRange ==
  /\ [](hex_size \in MIN_HEX_SIZE..MAX_HEX_SIZE)
  /\ [](event.handler = "__init__" => hex_size = HEX_SIZE_DEFAULT)
  /\ [][IF event'.handler = "_zoom"
        THEN LET d == event'.args[1]
             IN  hex_size' =
                   IF (d = 1 /\ hex_size = MAX_HEX_SIZE)
                      \/ (d = -1 /\ hex_size = MIN_HEX_SIZE)
                   THEN hex_size
                   ELSE hex_size + 5 * d
        ELSE hex_size' = hex_size]_vars

\* the wheel has been turned up with the hex radius at its largest
C17_Witness ==
  /\ event.handler = "_zoom"
  /\ event.args[1] = 1
  /\ hex_size = MAX_HEX_SIZE
  /\ <<cam_x, cam_y>> # <<550 * Unit, 380 * Unit>>

\* the step just taken is a pointer or key event other than New Map and
\* Load Map, taken in Place Overlay mode
OverlayModeEdit ==
  /\ mode = "place_overlay"
  /\ event'.handler \in {"_on_click", "_on_motion", "_on_release",
                         "_delete_action", "_delete_overlay", "_rotate_tile",
                         "_rotate_overlay", "_scale_overlay"}

\* C20: Place Overlay mode never edits tiles: while the mode is Place Overlay
\* the selected hex is unset, and no pointer-down, pointer move, Delete,
\* tile-rotate, overlay-rotate or overlay-scale event in that mode changes the
\* tile mapping.
C20_OverlayModeKeepsTiles ==
  /\ [](mode = "place_overlay" => selected_hex = None)
  /\ [][OverlayModeEdit => tiles' = tiles]_vars

\* Delete has removed an overlay in Place Overlay mode from a map that holds
\* a tile on the hex under the pointer
C20_Witness ==
  /\ mode = "place_overlay"
  /\ event.handler = "_delete_action"
  /\ event.outcome = "overlay_removed"
  /\ DictHas(tiles, <<0, 0>>)
  /\ hovered_hex # None

====
